---- MODULE Spec2Model ----
(***************************************************************************)
(* Scheduled-delivery engine of LineNotifier: the setInterval tick of      *)
(* registerRoutes (server routes), the record store it reads and writes,   *)
(* and the LINE notifier it calls.                                         *)
(*                                                                         *)
(* Instants are whole minutes.  Stored timestamps (scheduledTime,          *)
(* lastSent) are ISO/UTC instants, counted in minutes from                 *)
(* 2023-01-01T00:00Z; the tick converts them to Asia/Taipei wall-clock     *)
(* time before it reads any calendar field, as moment().tz() does.         *)
(***************************************************************************)
EXTENDS Integers, Sequences, FiniteSets, TLC

VARIABLES
    now,            \* the wall clock: current instant, UTC minutes
    advances,       \* how many times the clock has moved (bounded)
    messages,       \* storage.messages : id -> Message
    groups,         \* ids of the Group records in storage.groups
    settingsToken,  \* settings.lineApiToken is a non-empty string
    envToken,       \* process.env.LINE_CHANNEL_ACCESS_TOKEN is set
    snapshot,       \* the messages read by the tick that has just run (its local
                    \* "messages"); empty once the clock or the settings change
    calls,          \* id -> Notifier calls that tick made for the message
    allSuccess,     \* id -> that tick's local allSuccess for the message
    attempts,       \* id -> instants of the ticks that called the Notifier for it
    running,        \* timer firing -> the tick callback still in flight for it
    raised,         \* id -> where the tick that has just run hit an exception
    request,        \* the latest createMessage call: its argument and result
    body            \* a text handed to the content formatter

\* what the steps of the scheduler leave alone
others == <<running, raised, request, body>>

vars == <<now, advances, messages, groups, settingsToken, envToken,
          snapshot, calls, allSuccess, attempts, running, raised, request, body>>

----------------------------------------------------------------------------
(* Bounds of the model *)

MaxAdvance == 2

\* longest text given to the content formatter
MaxBody == 4

----------------------------------------------------------------------------
(* Calendar: what moment-timezone computes for an instant in Asia/Taipei *)

TzOffset == 480
MinutesPerDay == 24 * 60

\* Values of a stored time field that are not instants
None == 0 - 1           \* null / undefined
Empty == 0 - 2          \* the empty string ''
Invalid == 0 - 3        \* a string moment cannot parse

\* moment(x).isValid()
IsInstant(t) == t >= 0

\* moment(x).tz("Asia/Taipei"): the wall-clock minute count in Taipei
ToTW(t) == t + TzOffset

\* the Taipei wall clock written out as if it were UTC
ToISOString_Local(tw) == tw

\* nowTW.toDate().toISOString(): back to the stored UTC instant
ToISOString(tw) == tw - TzOffset

IsLeap(y) == (y % 4 = 0 /\ y % 100 # 0) \/ y % 400 = 0

YearLen(y) == IF IsLeap(y) THEN 366 ELSE 365

MonthLen(y, m) ==
    CASE m \in {0, 2, 4, 6, 7, 9, 11} -> 31
      [] m \in {3, 5, 8, 10} -> 30
      [] OTHER -> IF IsLeap(y) THEN 29 ELSE 28

RECURSIVE YearFrom(_, _)
\* <<year, day of year>> of a day number counted from 1 January of year y
YearFrom(d, y) ==
    IF d < YearLen(y) THEN <<y, d>> ELSE YearFrom(d - YearLen(y), y + 1)

RECURSIVE MonthFrom(_, _, _)
\* <<month (0-based), day of month (1-based)>> of a day of year
MonthFrom(d, y, m) ==
    IF d < MonthLen(y, m) THEN <<m, d + 1>> ELSE MonthFrom(d - MonthLen(y, m), y, m + 1)

DayNum(tw) == tw \div MinutesPerDay

\* <<year, day of year>> of a Taipei instant; day 0 is 2023-01-01
YearDay(tw) == YearFrom(DayNum(tw), 2023)

year(tw) == YearDay(tw)[1]

month(tw) == LET yd == YearDay(tw) IN MonthFrom(yd[2], yd[1], 0)[1]

date(tw) == LET yd == YearDay(tw) IN MonthFrom(yd[2], yd[1], 0)[2]

\* day of week, 0 = Sunday; 2023-01-01 was a Sunday
day(tw) == DayNum(tw) % 7

hour(tw) == (tw % MinutesPerDay) \div 60

minute(tw) == tw % 60

\* the instants themselves are compared, the unit is ignored
isSame_Exact(a, b, unit) == a = b

\* a.isSame(b, unit): both fall in the same startOf(unit) interval.
\* startOf('week') is the locale week of moment's default locale (en),
\* which starts on Sunday.
isSame(a, b, unit) ==
    CASE unit = "day" -> DayNum(a) = DayNum(b)
      [] unit = "week" -> DayNum(a) - day(a) = DayNum(b) - day(b)
      [] unit = "month" -> year(a) = year(b) /\ month(a) = month(b)
      [] unit = "year" -> year(a) = year(b)

----------------------------------------------------------------------------
(* The tick's handling of one message *)

SpecialGroupId == 18

\* settings is always present in the store; the tick skips delivery when
\* neither the stored token nor the environment token is available
TokenMissing == ~settingsToken /\ ~envToken

\* storage.getGroup for every id of groupIds, undefined results filtered out
ValidGroups(m) == SelectSeq(m.groupIds, LAMBDA g : g \in groups)

RECURSIVE SendLoop_FailFast(_, _, _, _)
\* the loop is left at the first call that throws
SendLoop_FailFast(validGroups, oc, i, acc) ==
    IF i > Len(validGroups) THEN acc
    ELSE LET group == validGroups[i]
             sent == [group |-> group, ok |-> oc[i]]
             failed == ~oc[i] /\ group # SpecialGroupId
             acc2 == [calls |-> Append(acc.calls, sent),
                      allSuccess |-> IF failed THEN FALSE ELSE acc.allSuccess]
         IN IF failed THEN acc2 ELSE SendLoop_FailFast(validGroups, oc, i + 1, acc2)

RECURSIVE SendLoop(_, _, _, _)
\* for (const group of validGroups) { try { await sendLineMessage(...) } catch ... }
\* oc[i] tells whether the i-th sendLineMessage call returns (TRUE) or throws
SendLoop(validGroups, oc, i, acc) ==
    IF i > Len(validGroups) THEN acc
    ELSE LET group == validGroups[i]
             sent == [group |-> group, ok |-> oc[i]]
             failed == ~oc[i] /\ group # SpecialGroupId
         IN SendLoop(validGroups, oc, i + 1,
                     [calls |-> Append(acc.calls, sent),
                      allSuccess |-> IF failed THEN FALSE ELSE acc.allSuccess])

SendToAll(validGroups, oc) ==
    SendLoop(validGroups, oc, 1, [calls |-> <<>>, allSuccess |-> TRUE])

Untouched(m) == [msg |-> m, deleted |-> FALSE, calls |-> <<>>, allSuccess |-> TRUE]

\* messages the first loop takes: m.type !== "periodic" || !m.recurringActive
IsSingleMessage(m) == m.type # "periodic" \/ ~m.recurringActive

\* messages the second loop takes: m.type === "periodic" && m.recurringActive
IsRecurringMessage(m) == m.type = "periodic" /\ m.recurringActive

\* the message fires only in the very minute of its scheduledTime
SingleDue_ExactMinute(m, t) == IsInstant(m.scheduledTime) /\ t = m.scheduledTime

\* nowTimestamp >= scheduledTimestamp; an unparsable scheduledTime gives NaN
SingleDue(m, t) == IsInstant(m.scheduledTime) /\ t >= m.scheduledTime

\* const newStatus = allSuccess ? "sent" : "partial"
SingleNewStatus(success) == IF success THEN "sent" ELSE "partial"

\* the type test is inverted
ShouldDelete_Periodic(m, success) == m.type = "periodic" /\ success

\* if (message.type !== "periodic" && allSuccess) storage.deleteMessage
ShouldDelete(m, success) == m.type # "periodic" /\ success

\* a missing token is persisted as a failure of the message
WithoutToken_Failed(m) ==
    [msg |-> [m EXCEPT !.status = "failed"], deleted |-> FALSE,
     calls |-> <<>>, allSuccess |-> TRUE]

\* console.error("LINE API Token未配置，跳過發送"); continue
WithoutToken(m) == Untouched(m)

ProcessSingle(m, t, oc) ==
    IF ~SingleDue(m, t) THEN Untouched(m)
    ELSE LET validGroups == ValidGroups(m) IN
         IF Len(validGroups) = 0
         THEN [msg |-> [m EXCEPT !.status = "failed"], deleted |-> FALSE,
               calls |-> <<>>, allSuccess |-> TRUE]
         ELSE IF TokenMissing THEN WithoutToken(m)
         ELSE LET r == SendToAll(validGroups, oc)
                  newStatus == SingleNewStatus(r.allSuccess)
              IN [msg |-> [m EXCEPT !.status = newStatus,
                                    !.lastSent = ToISOString(ToTW(t))],
                  deleted |-> ShouldDelete(m, r.allSuccess),
                  calls |-> r.calls,
                  allSuccess |-> r.allSuccess]

\* a message never sent counts as sent long ago
LastSentTW_Epoch(m) ==
    IF m.lastSent # None THEN ToTW(m.lastSent) ELSE ToTW(0)

\* const lastSentTW = message.lastSent ? moment(message.lastSent).tz(...)
\*                                     : moment(message.scheduledTime).tz(...)
LastSentTW(m) ==
    IF m.lastSent # None THEN ToTW(m.lastSent) ELSE ToTW(m.scheduledTime)

\* the message fires only in the very minute of its scheduledTime
TimeReached_Exact(currentTotalMinutes, scheduledTotalMinutes) ==
    currentTotalMinutes = scheduledTotalMinutes

\* currentTotalMinutes >= scheduledTotalMinutes
TimeReached(currentTotalMinutes, scheduledTotalMinutes) ==
    currentTotalMinutes >= scheduledTotalMinutes

\* every recurringType is handled as "daily" is, with its own unit
SwitchRecurringType_NoDayMatch(m, t) ==
    LET nowTW == ToTW(t)
        scheduledTimeTW == ToTW(m.scheduledTime)
        unit == CASE m.recurringType = "daily" -> "day"
                  [] m.recurringType = "weekly" -> "week"
                  [] m.recurringType = "monthly" -> "month"
                  [] OTHER -> "year"
    IN /\ m.recurringType \in {"daily", "weekly", "monthly", "yearly"}
       /\ TimeReached(hour(nowTW) * 60 + minute(nowTW),
                      hour(scheduledTimeTW) * 60 + minute(scheduledTimeTW))
       /\ ~isSame(LastSentTW(m), nowTW, unit)

\* the switch on message.recurringType
SwitchRecurringType(m, t) ==
    LET nowTW == ToTW(t)
        scheduledTimeTW == ToTW(m.scheduledTime)
        lastSentTW == LastSentTW(m)
        currentTotalMinutes == hour(nowTW) * 60 + minute(nowTW)
        scheduledTotalMinutes == hour(scheduledTimeTW) * 60 + minute(scheduledTimeTW)
    IN CASE m.recurringType = "daily" ->
              /\ TimeReached(currentTotalMinutes, scheduledTotalMinutes)
              /\ ~isSame(lastSentTW, nowTW, "day")
         [] m.recurringType = "weekly" ->
              /\ TimeReached(currentTotalMinutes, scheduledTotalMinutes)
              /\ day(nowTW) = day(scheduledTimeTW)
              /\ ~isSame(lastSentTW, nowTW, "week")
         [] m.recurringType = "monthly" ->
              /\ TimeReached(currentTotalMinutes, scheduledTotalMinutes)
              /\ date(nowTW) = date(scheduledTimeTW)
              /\ ~isSame(lastSentTW, nowTW, "month")
         [] m.recurringType = "yearly" ->
              /\ TimeReached(currentTotalMinutes, scheduledTotalMinutes)
              /\ date(nowTW) = date(scheduledTimeTW)
              /\ month(nowTW) = month(scheduledTimeTW)
              /\ ~isSame(lastSentTW, nowTW, "year")
         [] OTHER -> FALSE

\* a scheduledTime that cannot be read counts as reached
ShouldSend_UnreadableIsDue(m, t) ==
    IF IsInstant(m.scheduledTime) THEN SwitchRecurringType(m, t) ELSE TRUE

\* a recurrence does not start before the instant of its anchor
ShouldSend_AfterAnchor(m, t) ==
    IsInstant(m.scheduledTime) /\ t >= m.scheduledTime /\ SwitchRecurringType(m, t)

\* let shouldSend = false, set by the switch; every comparison with the
\* fields of an invalid moment (NaN) is false
ShouldSend(m, t) == IsInstant(m.scheduledTime) /\ SwitchRecurringType(m, t)

\* the periodic loop reuses the single loop's status rule
RecurringNewStatus_AsSingle(success) == IF success THEN "sent" ELSE "partial"

\* const newStatus = "scheduled"
RecurringNewStatus(success) == "scheduled"

\* lastSent is advanced only when every target succeeded
RecurringLastSent_OnSuccess(m, t, success) ==
    IF success THEN ToISOString(ToTW(t)) ELSE m.lastSent

\* lastSent: nowTW.toDate().toISOString(), whatever the outcome
RecurringLastSent(m, t, success) == ToISOString(ToTW(t))

ProcessRecurring(m, t, oc) ==
    IF m.scheduledTime = Empty THEN Untouched(m)
    ELSE IF ~ShouldSend(m, t) THEN Untouched(m)
    ELSE LET validGroups == ValidGroups(m) IN
         IF Len(validGroups) = 0 THEN Untouched(m)
         ELSE IF TokenMissing THEN WithoutToken(m)
         ELSE LET r == SendToAll(validGroups, oc)
              IN [msg |-> [m EXCEPT !.status = RecurringNewStatus(r.allSuccess),
                                    !.lastSent = RecurringLastSent(m, t, r.allSuccess)],
                  deleted |-> FALSE,
                  calls |-> r.calls,
                  allSuccess |-> r.allSuccess]

\* one message of the tick: pendingMessages keeps status === "scheduled" only
ProcessMessage(m, t, oc) ==
    IF m.status # "scheduled" THEN Untouched(m)
    ELSE IF IsSingleMessage(m) THEN ProcessSingle(m, t, oc)
    ELSE ProcessRecurring(m, t, oc)

----------------------------------------------------------------------------
(* Store contents the model starts from *)

\* 2024-01-31 is day 395 from 2023-01-01, a Wednesday
TWInstant(dayNum, h, mi) == ToISOString(dayNum * MinutesPerDay + h * 60 + mi)

Now0 == TWInstant(395, 6, 59)       \* 2024-01-31 06:59 Taipei = 2024-01-30T22:59Z
AnchorPast == TWInstant(395, 6, 54) \* five minutes before Now0
AnchorNext == TWInstant(395, 7, 0)  \* one minute after Now0
SentLastYear == TWInstant(364, 7, 5) \* 2023-12-31 07:05 Taipei, a Sunday

AdvanceSteps ==
    {1, MinutesPerDay, 7 * MinutesPerDay, 30 * MinutesPerDay, 366 * MinutesPerDay}

GroupIdLists == {<<1>>, <<2>>, <<18>>, <<1, 2>>, <<1, 18>>}

FewGroupIdLists == {<<1>>, <<1, 2>>}

GroupStores == {{1, 18}, {1, 2, 18}}

Message(type, status, scheduledTime, lastSent, recurringType, recurringActive, groupIds) ==
    [type |-> type, status |-> status, scheduledTime |-> scheduledTime,
     lastSent |-> lastSent, recurringType |-> recurringType,
     recurringActive |-> recurringActive, groupIds |-> groupIds]

SingleMessages ==
    {Message("single", "scheduled", s, None, "none", FALSE, g) :
        s \in {AnchorPast, AnchorNext}, g \in GroupIdLists}

PausedMessages ==
    {Message("periodic", "scheduled", s, None, "daily", FALSE, g) :
        s \in {AnchorPast, AnchorNext}, g \in FewGroupIdLists}

RecurringMessages ==
    UNION {{Message("periodic", "scheduled", s, l, r, TRUE, g) :
               s \in {AnchorPast, AnchorNext},
               g \in IF r = "daily" THEN GroupIdLists ELSE FewGroupIdLists} :
           l \in {None, SentLastYear}, r \in {"daily", "weekly", "monthly", "yearly"}}

SettledMessages ==
    UNION {{Message("single", st, AnchorPast, None, "none", FALSE, <<1>>),
            Message("periodic", st, AnchorPast, SentLastYear, "daily", TRUE, <<1>>)} :
           st \in {"sent", "partial", "failed"}}

MalformedMessages ==
    UNION {{Message("single", "scheduled", s, None, "none", FALSE, <<1>>),
            Message("periodic", "scheduled", s, None, "daily", TRUE, <<1>>)} :
           s \in {Empty, Invalid}}

InitMessages ==
    SingleMessages \cup PausedMessages \cup RecurringMessages
        \cup SettledMessages \cup MalformedMessages

----------------------------------------------------------------------------
(* Actions *)

\* no tick in flight, no exception, no store request, no text
OthersIdle ==
    /\ running = {}
    /\ raised = <<>>
    /\ request = <<>>
    /\ body = <<>>

\* The store holds one message, any of those the CRUD routes can put there
\* (POST and PUT /messages accept every field), and the Group records the
\* operator has created; ticks run one after the other, each to completion.
Init ==
    /\ now = Now0
    /\ advances = 0
    /\ messages \in [{1} -> InitMessages]
    /\ groups \in GroupStores
    /\ settingsToken \in BOOLEAN
    /\ envToken \in BOOLEAN
    /\ snapshot = <<>>
    /\ calls = [id \in {1} |-> <<>>]
    /\ allSuccess = [id \in {1} |-> TRUE]
    /\ attempts = [id \in {1} |-> <<>>]
    /\ OthersIdle

\* the locals of the tick that has run are gone
TickForgotten ==
    /\ snapshot' = <<>>
    /\ calls' = [id \in DOMAIN calls |-> <<>>]
    /\ allSuccess' = [id \in DOMAIN allSuccess |-> TRUE]

\* time passes between two ticks (one interval, or longer when the loop was
\* delayed or the process was down)
Advance ==
    /\ advances < MaxAdvance
    /\ \E d \in AdvanceSteps : now' = now + d
    /\ advances' = advances + 1
    /\ TickForgotten
    /\ UNCHANGED <<messages, groups, settingsToken, envToken, attempts>>
    /\ UNCHANGED others

\* PUT /settings: the operator sets or clears lineApiToken
UpdateSettings ==
    /\ \E b \in BOOLEAN : b # settingsToken /\ settingsToken' = b
    /\ TickForgotten
    /\ UNCHANGED <<now, advances, messages, groups, envToken, attempts>>
    /\ UNCHANGED others

\* what the Notifier may answer in one tick: for every message, whether the
\* call for its i-th resolved group returns or throws
Outcomes(ms) ==
    {oc \in [DOMAIN ms -> UNION {[1..Len(ValidGroups(ms[id])) -> BOOLEAN] : id \in DOMAIN ms}] :
        \A id \in DOMAIN ms : DOMAIN oc[id] = 1..Len(ValidGroups(ms[id]))}

\* the setInterval callback, run to completion at instant now
Tick ==
    \E oc \in Outcomes(messages) :
        LET res == [id \in DOMAIN messages |-> ProcessMessage(messages[id], now, oc[id])]
            kept == {id \in DOMAIN messages : ~res[id].deleted}
        IN /\ messages' = [id \in kept |-> res[id].msg]
           /\ snapshot' = messages
           /\ allSuccess' = [id \in DOMAIN allSuccess |->
                           IF id \in DOMAIN messages THEN res[id].allSuccess ELSE TRUE]
           /\ calls' = [id \in DOMAIN calls |->
                           IF id \in DOMAIN messages THEN res[id].calls ELSE <<>>]
           /\ attempts' = [id \in DOMAIN attempts |->
                           IF id \in DOMAIN messages /\ res[id].calls # <<>>
                           THEN Append(attempts[id], now) ELSE attempts[id]]
           /\ UNCHANGED <<now, advances, groups, settingsToken, envToken>>
           /\ UNCHANGED others

Next == Advance \/ UpdateSettings \/ Tick

Spec == Init /\ [][Next]_vars

----------------------------------------------------------------------------
(* The timer and the network.  setInterval fires the callback every minute *)
(* whether or not the previous callback has returned, and the callback     *)
(* gives up the thread while it awaits fetch.  A firing that reaches the   *)
(* fan-out stays in flight with what it read; its writes to the store      *)
(* happen when the responses have come.                                    *)

\* updateMessage and deleteMessage of a firing whose calls have returned
StoreAfter(ms, res) ==
    LET present == {id \in DOMAIN ms : id \in DOMAIN res}
        gone == {id \in present : res[id].calls # <<>> /\ res[id].deleted}
    IN [id \in DOMAIN ms \ gone |->
            IF id \in present /\ res[id].calls # <<>>
            THEN [ms[id] EXCEPT !.status = res[id].msg.status,
                                !.lastSent = res[id].msg.lastSent]
            ELSE ms[id]]

\* the callback runs up to the first await of fetch
TickBegin ==
    /\ \A r \in running : r.t < now
    /\ \E oc \in Outcomes(messages), hung \in BOOLEAN :
        LET res == [id \in DOMAIN messages |-> ProcessMessage(messages[id], now, oc[id])]
            waits == \E id \in DOMAIN messages : res[id].calls # <<>>
            kept == {id \in DOMAIN messages : ~res[id].deleted}
        IN IF waits
           THEN /\ running' = running \cup {[t |-> now, res |-> res, hung |-> hung]}
                /\ attempts' = [id \in DOMAIN attempts |->
                                    IF id \in DOMAIN res /\ res[id].calls # <<>>
                                    THEN Append(attempts[id], now)
                                    ELSE attempts[id]]
                /\ UNCHANGED messages
           ELSE /\ ~hung
                /\ messages' = [id \in kept |-> res[id].msg]
                /\ UNCHANGED <<running, attempts>>
    /\ UNCHANGED <<now, advances, groups, settingsToken, envToken>>
    /\ UNCHANGED <<snapshot, calls, allSuccess, raised, request, body>>

\* the awaited calls have returned and the callback runs to its end
TickResume ==
    /\ \E r \in running :
        /\ ~r.hung
        /\ running' = running \ {r}
        /\ messages' = StoreAfter(messages, r.res)
    /\ UNCHANGED <<now, advances, groups, settingsToken, envToken, attempts>>
    /\ UNCHANGED <<snapshot, calls, allSuccess, raised, request, body>>

OverlapMessages ==
    {Message("single", "scheduled", AnchorNext, None, "none", FALSE, g) :
        g \in FewGroupIdLists}
    \cup {Message("periodic", "scheduled", AnchorPast, ls, "daily", TRUE, <<1>>) :
        ls \in {None, SentLastYear}}

InitOverlap ==
    /\ now = Now0
    /\ advances = 0
    /\ messages \in [{1} -> OverlapMessages]
    /\ groups = {1, 2, 18}
    /\ settingsToken = TRUE
    /\ envToken = FALSE
    /\ snapshot = <<>>
    /\ calls = [id \in {1} |-> <<>>]
    /\ allSuccess = [id \in {1} |-> TRUE]
    /\ attempts = [id \in {1} |-> <<>>]
    /\ OthersIdle

NextOverlap == Advance \/ TickBegin \/ TickResume

SpecOverlap == InitOverlap /\ [][NextOverlap]_vars

\* a continuation whose awaited promise has settled is run by the event loop
SpecOverlapFair == SpecOverlap /\ WF_vars(TickResume)

----------------------------------------------------------------------------
(* Exceptions.  The calls of the tick to the store are awaited inside the  *)
(* try block of the loop body; a rejected call leaves the body at that     *)
(* point.  Failures of the Notifier are caught around each call and are    *)
(* the outcomes oc.                                                        *)

\* the awaited store calls of a loop body, and no exception
ErrorPoints == {"none", "getGroup", "getSettings", "updateMessage", "deleteMessage"}

\* the body gets as far as its fan-out gate: the message is due
ReachesGate(m, t) ==
    /\ m.status = "scheduled"
    /\ IF IsSingleMessage(m) THEN SingleDue(m, t)
       ELSE m.scheduledTime # Empty /\ ShouldSend(m, t)

\* the body of message m makes the store call e
Reaches(m, t, oc, e) ==
    LET r == ProcessMessage(m, t, oc)
    IN CASE e = "none" -> FALSE
         [] e = "getGroup" -> ReachesGate(m, t) /\ m.groupIds # <<>>
         [] e = "getSettings" -> ReachesGate(m, t) /\ ValidGroups(m) # <<>>
         [] e = "updateMessage" ->
                \/ r.calls # <<>>
                \/ ReachesGate(m, t) /\ IsSingleMessage(m) /\ ValidGroups(m) = <<>>
         [] e = "deleteMessage" -> r.deleted

\* one loop body in which the store call e, if made, throws
ProcessGuarded(m, t, oc, e) ==
    LET r == ProcessMessage(m, t, oc)
    IN IF ~Reaches(m, t, oc, e) THEN r
       ELSE CASE e \in {"getGroup", "getSettings"} -> Untouched(m)
              [] e = "updateMessage" -> [r EXCEPT !.msg = m, !.deleted = FALSE]
              [] e = "deleteMessage" -> [r EXCEPT !.deleted = FALSE]

RECURSIVE Ascending(_)
\* the ids of the store in the order of the Map's insertion
Ascending(S) ==
    IF S = {} THEN <<>>
    ELSE LET x == CHOOSE x \in S : \A y \in S : x <= y
         IN <<x>> \o Ascending(S \ {x})

\* messages in the order the tick takes them: first loop, then second loop
LoopOrder(ms) ==
    LET all == Ascending(DOMAIN ms)
    IN SelectSeq(all, LAMBDA id : IsSingleMessage(ms[id]))
       \o SelectSeq(all, LAMBDA id : IsRecurringMessage(ms[id]))

RECURSIVE ForEach_CatchOutside(_, _, _, _, _, _)
\* a loop whose only handler is the one around the whole tick
ForEach_CatchOutside(ids, ms, t, oc, err, acc) ==
    IF ids = <<>> THEN acc
    ELSE LET id == Head(ids)
             r == ProcessGuarded(ms[id], t, oc[id], err[id])
         IN IF Reaches(ms[id], t, oc[id], err[id])
            THEN (id :> r) @@ [j \in DOMAIN ms |-> Untouched(ms[j])] @@ acc
            ELSE ForEach_CatchOutside(Tail(ids), ms, t, oc, err, (id :> r) @@ acc)

RECURSIVE ForEach(_, _, _, _, _, _)
\* for (const message of ...) { try { body } catch (error) { log } }
ForEach(ids, ms, t, oc, err, acc) ==
    IF ids = <<>> THEN acc
    ELSE LET id == Head(ids)
             r == ProcessGuarded(ms[id], t, oc[id], err[id])
         IN ForEach(Tail(ids), ms, t, oc, err, (id :> r) @@ acc)

\* a tick of the scheduler in which store calls may throw; the timer fires
\* once in a minute
TickWithErrors ==
    /\ snapshot = <<>>
    /\ \E oc \in Outcomes(messages), err \in [DOMAIN messages -> ErrorPoints] :
        LET res == ForEach(LoopOrder(messages), messages, now, oc, err, <<>>)
            kept == {id \in DOMAIN messages : ~res[id].deleted}
        IN /\ messages' = [id \in kept |-> res[id].msg]
           /\ snapshot' = messages
           /\ allSuccess' = [id \in DOMAIN allSuccess |->
                                IF id \in DOMAIN res THEN res[id].allSuccess ELSE TRUE]
           /\ calls' = [id \in DOMAIN calls |->
                            IF id \in DOMAIN res THEN res[id].calls ELSE <<>>]
           /\ attempts' = [id \in DOMAIN attempts |->
                                IF id \in DOMAIN res /\ res[id].calls # <<>>
                                THEN Append(attempts[id], now)
                                ELSE attempts[id]]
           /\ raised' = [id \in DOMAIN messages |->
                            IF Reaches(messages[id], now, oc[id], err[id])
                            THEN err[id] ELSE "none"]
           /\ UNCHANGED <<now, advances, groups, settingsToken, envToken>>
           /\ UNCHANGED <<running, request, body>>

\* the period of the timer goes by
NextMinute ==
    /\ advances < MaxAdvance
    /\ now' = now + 1
    /\ advances' = advances + 1
    /\ TickForgotten
    /\ UNCHANGED <<messages, groups, settingsToken, envToken, attempts>>
    /\ UNCHANGED others

\* two messages in the store
PairMessages ==
    {Message("single", "scheduled", AnchorNext, None, "none", FALSE, g) :
        g \in {<<1>>, <<2>>}}
    \cup {Message("periodic", "scheduled", AnchorPast, SentLastYear, "daily", TRUE, <<1>>)}
    \cup {Message("periodic", "scheduled", st, None, "daily", TRUE, <<1>>) :
        st \in {Empty, Invalid}}
    \cup {Message("periodic", "scheduled", Invalid, None, "daily", FALSE, <<1>>)}

InitErrors ==
    /\ now = Now0
    /\ advances = 0
    /\ messages \in [{1, 2} -> PairMessages]
    /\ groups = {1, 18}
    /\ settingsToken = TRUE
    /\ envToken = FALSE
    /\ snapshot = <<>>
    /\ calls = [id \in {1, 2} |-> <<>>]
    /\ allSuccess = [id \in {1, 2} |-> TRUE]
    /\ attempts = [id \in {1, 2} |-> <<>>]
    /\ OthersIdle

NextErrors == NextMinute \/ TickWithErrors

SpecErrors == InitErrors /\ [][NextErrors]_vars

----------------------------------------------------------------------------
(* Weekly messages anchored on a Sunday.  POST /send-message writes the    *)
(* lastSent of an active periodic message at whatever moment the user      *)
(* sends it, so a stored lastSent can lie on any weekday.                  *)

\* 2024-02-04 is day 399 from 2023-01-01, a Sunday; 2024-01-28 the Sunday before
SundayNow == TWInstant(399, 6, 59)
SundayAnchor == TWInstant(392, 6, 54)
\* a manual send on Wednesday 2024-01-31
MidWeekSent == TWInstant(395, 7, 5)

WeeklyMessages ==
    {Message("periodic", "scheduled", SundayAnchor, ls, "weekly", TRUE, g) :
        ls \in {None, SundayAnchor, MidWeekSent}, g \in FewGroupIdLists}

InitWeek ==
    /\ now = SundayNow
    /\ advances = 0
    /\ messages \in [{1} -> WeeklyMessages]
    /\ groups \in GroupStores
    /\ settingsToken \in BOOLEAN
    /\ envToken = FALSE
    /\ snapshot = <<>>
    /\ calls = [id \in {1} |-> <<>>]
    /\ allSuccess = [id \in {1} |-> TRUE]
    /\ attempts = [id \in {1} |-> <<>>]
    /\ OthersIdle

SpecWeek == InitWeek /\ [][Next]_vars

----------------------------------------------------------------------------
(* The message store.  Stored messages carry the fields createMessage      *)
(* gives them; field values are the strings of the schema, with "null"     *)
(* for null.                                                               *)

Null == "null"

\* a || b on a nullable string
Or(a, b) == IF a = Null \/ a = "" THEN b ELSE a

\* MemStorage.createMessage: the record it builds from messageData
createMessage(id, createdAt, messageData) ==
    [id |-> id,
     title |-> messageData.title,
     content |-> messageData.content,
     type |-> messageData.type,
     status |-> Or(messageData.status, "scheduled"),
     createdAt |-> createdAt,
     groupIds |-> messageData.groupIds,
     currency |-> Or(messageData.currency, Null),
     amount |-> Or(messageData.amount, Null),
     scheduledTime |-> Or(messageData.scheduledTime, ""),
     endTime |-> Or(messageData.endTime, Null)]

\* MemStorage.getMessage for an id the store holds
getMessage(id) == messages[id]

\* this.messageId: ids go up by one with every createMessage; no message
\* is deleted between the constructor and the request
messageId == Cardinality(DOMAIN messages) + 1

\* the sample messages of the constructor
defaultMessages ==
    <<[title |-> "t1", content |-> "c1", scheduledTime |-> "now",
       endTime |-> "now+2h", type |-> "single", status |-> "scheduled",
       groupIds |-> <<"1">>, currency |-> Null, amount |-> Null],
      [title |-> "t2", content |-> "c2", scheduledTime |-> "yesterday",
       endTime |-> "yesterday+1h", type |-> "single", status |-> "sent",
       groupIds |-> <<"8">>, currency |-> Null, amount |-> Null],
      [title |-> "t3", content |-> "c3", scheduledTime |-> "yesterday-3d",
       endTime |-> "yesterday-3d+30m", type |-> "single", status |-> "sent",
       groupIds |-> <<"2">>, currency |-> "TWD", amount |-> "5000"],
      [title |-> "t4", content |-> "c4", scheduledTime |-> "now-5d",
       endTime |-> "now-5d+1h", type |-> "single", status |-> "sent",
       groupIds |-> <<"6">>, currency |-> "USD", amount |-> "1500"]>>

\* values that pass insertMessageSchema
InsertMessages ==
    [title : {"t"},
     content : {"c"},
     scheduledTime : {"2024-01-31T07:00:00.000Z", ""},
     endTime : {Null, "2024-01-31T08:00:00.000Z"},
     type : {"single", "periodic"},
     status : {"scheduled", "sent"},
     groupIds : {<<"1">>},
     currency : {Null, "", "TWD"},
     amount : {Null, "", "100"},
     recurringType : {Null, "daily"},
     lastSent : {Null, "2024-01-30T07:00:00.000Z"},
     recurringActive : BOOLEAN]

InitStore ==
    /\ now = Now0
    /\ advances = 0
    /\ messages = [id \in 1..Len(defaultMessages) |->
                        createMessage(id, Now0, defaultMessages[id])]
    /\ groups = {1, 2}
    /\ settingsToken = FALSE
    /\ envToken = FALSE
    /\ snapshot = <<>>
    /\ calls = <<>>
    /\ allSuccess = <<>>
    /\ attempts = <<>>
    /\ OthersIdle

\* storage.createMessage(validated); request holds the argument and the id
CreateMessage ==
    /\ request = <<>>
    /\ \E messageData \in InsertMessages :
        LET id == messageId
        IN /\ messages' = (id :> createMessage(id, now, messageData)) @@ messages
           /\ request' = <<messageData, id>>
    /\ UNCHANGED <<now, advances, groups, settingsToken, envToken>>
    /\ UNCHANGED <<snapshot, calls, allSuccess, attempts, running, raised, body>>

\* storage.getMessage(id) with the id createMessage returned
GetMessage ==
    /\ Len(request) = 2
    /\ request' = Append(request, getMessage(request[2]))
    /\ UNCHANGED <<now, advances, messages, groups, settingsToken, envToken>>
    /\ UNCHANGED <<snapshot, calls, allSuccess, attempts, running, raised, body>>

NextStore == CreateMessage \/ GetMessage

SpecStore == InitStore /\ [][NextStore]_vars

----------------------------------------------------------------------------
(* The content formatter.  A text is a sequence of characters, of which    *)
(* the ideographic full stop (U+3002) and the line feed matter to the      *)
(* formatter; "x" stands for any other character.                          *)

FullStop == "stop"
LineFeed == "lf"
Chars == {FullStop, LineFeed, "x"}

RECURSIVE InsertBreaks_NoLookahead(_)
\* replace(/\u3002/g, "\u3002\n"): a line feed after every full stop
InsertBreaks_NoLookahead(s) ==
    IF s = <<>> THEN <<>>
    ELSE IF Head(s) = FullStop
         THEN <<FullStop, LineFeed>> \o InsertBreaks_NoLookahead(Tail(s))
         ELSE <<Head(s)>> \o InsertBreaks_NoLookahead(Tail(s))

RECURSIVE InsertBreaks(_)
\* replace(/\u3002(?!\n)/g, "\u3002\n"): a line feed after every full stop
\* that the text does not already follow with one
InsertBreaks(s) ==
    IF s = <<>> THEN <<>>
    ELSE IF Head(s) = FullStop /\ (Len(s) = 1 \/ s[2] # LineFeed)
         THEN <<FullStop, LineFeed>> \o InsertBreaks(Tail(s))
         ELSE <<Head(s)>> \o InsertBreaks(Tail(s))

\* the message contents the formatter is given
Bodies == UNION {[1..n -> Chars] : n \in 0..MaxBody}

InitFormat ==
    /\ now = Now0
    /\ advances = 0
    /\ messages = <<>>
    /\ groups = {1, 2}
    /\ settingsToken = FALSE
    /\ envToken = FALSE
    /\ snapshot = <<>>
    /\ calls = <<>>
    /\ allSuccess = <<>>
    /\ attempts = <<>>
    /\ running = {}
    /\ raised = <<>>
    /\ request = <<>>
    /\ body \in Bodies

\* finalContent = finalContent.replace(...)
Format ==
    /\ body' = InsertBreaks(body)
    /\ UNCHANGED <<now, advances, messages, groups, settingsToken, envToken>>
    /\ UNCHANGED <<snapshot, calls, allSuccess, attempts, running, raised, request>>

NextFormat == Format

SpecFormat == InitFormat /\ [][NextFormat]_vars

----------------------------------------------------------------------------
(* The currency annotation.  "NT$", "US$" and "AU$" are one character each *)
(* here, an amount is a text of digits, and "label" stands for the four    *)
(* characters of the label and its colon and blank.                        *)

\* let currencySymbol = ""; if (message.currency === "TWD") ... else if ...
currencySymbol(currency) ==
    CASE currency = "TWD" -> <<"NT$">>
      [] currency = "USD" -> <<"US$">>
      [] currency = "AUD" -> <<"AU$">>
      [] OTHER -> <<>>

\* String.prototype.includes
includes(text, part) ==
    \E i \in 0..(Len(text) - Len(part)) : SubSeq(text, i + 1, i + Len(part)) = part

\* the annotation is appended whether or not the text holds it already
Annotate_Always(content, currency, amount) ==
    IF currency # "" /\ amount # <<>>
    THEN content \o <<LineFeed, LineFeed, "label">> \o currencySymbol(currency) \o amount
    ELSE content

\* if (message.currency && message.amount) { ... finalContent += ... }
Annotate(content, currency, amount) ==
    IF currency # "" /\ amount # <<>>
    THEN LET rendered == currencySymbol(currency) \o amount
         IN IF ~includes(content, rendered)
            THEN content \o <<LineFeed, LineFeed, "label">> \o rendered
            ELSE content
    ELSE content

\* the formatting of the loops: annotation, then line breaks
format(content, currency, amount) == InsertBreaks(Annotate(content, currency, amount))

\* currency codes: none (null or ""), the three of the enum, and another
Currencies == {"", "TWD", "USD", "AUD", "EUR"}

\* amounts: none (null or ""), and decimal strings
Amounts == {<<>>, <<"5">>, <<"5", "5">>}

\* message contents that can hold a rendered amount
MoneyBodies == UNION {[1..n -> {FullStop, "x", "NT$", "5"}] : n \in 0..MaxBody}

MoneyMessages == [content : MoneyBodies, currency : Currencies, amount : Amounts]

InitAnnotate ==
    /\ now = Now0
    /\ advances = 0
    /\ messages \in [{1} -> MoneyMessages]
    /\ groups = {1, 2}
    /\ settingsToken = FALSE
    /\ envToken = FALSE
    /\ snapshot = <<>>
    /\ calls = <<>>
    /\ allSuccess = <<>>
    /\ attempts = <<>>
    /\ running = {}
    /\ raised = <<>>
    /\ request = <<>>
    /\ body = messages[1].content

\* the content formatting of a loop body, applied to the text at hand
FormatMessage ==
    /\ body' = format(body, messages[1].currency, messages[1].amount)
    /\ UNCHANGED <<now, advances, messages, groups, settingsToken, envToken>>
    /\ UNCHANGED <<snapshot, calls, allSuccess, attempts, running, raised, request>>

NextAnnotate == FormatMessage

SpecAnnotate == InitAnnotate /\ [][NextAnnotate]_vars

----------------------------------------------------------------------------
(* Vocabulary of the properties.  While snapshot is not empty, a tick has  *)
(* just run at instant now: snapshot is the store it read, messages the    *)
(* store it left, calls and allSuccess what it did for each message.       *)

\* the group ids of a message that resolve to a Group record, in order
ResolvedTargets(m) == SelectSeq(m.groupIds, LAMBDA g : g \in groups)

\* the groups the Notifier was called for, in call order
CalledGroups(cs) == [i \in 1..Len(cs) |-> cs[i].group]

AllOk(cs) == \A i \in 1..Len(cs) : cs[i].ok

SomeFailed(cs) == \E i \in 1..Len(cs) : ~cs[i].ok

\* first day of the ISO week (Monday to Sunday) of a Taipei instant
IsoWeekStart(tw) == DayNum(tw) - ((day(tw) + 6) % 7)

\* two stored instants fall in the same period instance of a recurrence
SamePeriodInstance(r, a, b) ==
    LET x == ToTW(a)
        y == ToTW(b)
    IN CASE r = "daily" -> DayNum(x) = DayNum(y)
         [] r = "weekly" -> IsoWeekStart(x) = IsoWeekStart(y)
         [] r = "monthly" -> year(x) = year(y) /\ month(x) = month(y)
         [] r = "yearly" -> year(x) = year(y)

Last(seq) == seq[Len(seq)]

\* a single message that is pending and whose scheduledTime has been reached
DueSingle(m, t) ==
    /\ m.type = "single"
    /\ m.status = "scheduled"
    /\ m.scheduledTime >= 0
    /\ m.scheduledTime <= t

\* an active periodic message that is pending
ActivePeriodic(m) ==
    m.type = "periodic" /\ m.recurringActive /\ m.status = "scheduled"

----------------------------------------------------------------------------
(* C1: for every active periodic message, no two ticks that called the     *)
(* Notifier for it lie in the same period instance (day, week, month or    *)
(* year, by its recurringType): delivery is attempted at most once per     *)
(* period instance however many ticks run after the threshold.             *)
C1_AtMostOncePerPeriod ==
    \A id \in DOMAIN messages :
        (messages[id].type = "periodic" /\ messages[id].recurringActive) =>
            \A i, j \in 1..Len(attempts[id]) :
                i < j => ~SamePeriodInstance(messages[id].recurringType,
                                             attempts[id][i], attempts[id][j])

\* a tick has run later in the period of an attempt and made no call
C1_Witness ==
    \E id \in DOMAIN snapshot :
        /\ snapshot[id].type = "periodic" /\ snapshot[id].recurringActive
        /\ snapshot[id].status = "scheduled"
        /\ attempts[id] # <<>>
        /\ calls[id] = <<>>
        /\ Last(attempts[id]) < now
        /\ SamePeriodInstance(snapshot[id].recurringType, Last(attempts[id]), now)

(* C2: a pending single message whose scheduledTime is at or before the    *)
(* tick's time, however long ago, with a token available and at least one  *)
(* resolvable group, gets exactly one Notifier call per resolved target in *)
(* that tick.                                                              *)
C2_DueSingleCalledOncePerTarget ==
    \A id \in DOMAIN snapshot :
        (/\ DueSingle(snapshot[id], now)
         /\ (settingsToken \/ envToken)
         /\ ResolvedTargets(snapshot[id]) # <<>>)
        => CalledGroups(calls[id]) = ResolvedTargets(snapshot[id])

\* a single message more than a day overdue was sent to both of its targets
C2_Witness ==
    \E id \in DOMAIN snapshot :
        /\ DueSingle(snapshot[id], now)
        /\ snapshot[id].scheduledTime + MinutesPerDay <= now
        /\ Len(snapshot[id].groupIds) = 2
        /\ CalledGroups(calls[id]) = snapshot[id].groupIds

(* C3: when the Notifier succeeds for every target of a due single         *)
(* message, the message is no longer in the store after the tick.          *)
C3_SingleAllSuccessDeleted ==
    \A id \in DOMAIN snapshot :
        (/\ DueSingle(snapshot[id], now)
         /\ calls[id] # <<>>
         /\ AllOk(calls[id]))
        => id \notin DOMAIN messages

C3_Witness ==
    \E id \in DOMAIN snapshot :
        /\ DueSingle(snapshot[id], now)
        /\ calls[id] # <<>>
        /\ AllOk(calls[id])
        /\ id \notin DOMAIN messages

(* C4: when the Notifier succeeds for every target of a due active         *)
(* periodic message, the tick sets lastSent to its current time, leaves    *)
(* status = scheduled and keeps the message in the store.                  *)
C4_PeriodicAllSuccessRescheduled ==
    \A id \in DOMAIN snapshot :
        (/\ ActivePeriodic(snapshot[id])
         /\ calls[id] # <<>>
         /\ AllOk(calls[id]))
        => /\ id \in DOMAIN messages
           /\ messages[id].lastSent = now
           /\ messages[id].status = "scheduled"
           /\ messages[id] = [snapshot[id] EXCEPT !.lastSent = now]

C4_Witness ==
    \E id \in DOMAIN snapshot :
        /\ id \in DOMAIN messages
        /\ ActivePeriodic(snapshot[id])
        /\ calls[id] # <<>>
        /\ AllOk(calls[id])
        /\ messages[id].lastSent = now
        /\ snapshot[id].lastSent # now
        /\ messages[id].status = "scheduled"

\* due as the tick evaluates it: the first loop's timestamp test for the
\* messages it takes, the recurringType switch for the others
DueAtTick(m, t) ==
    /\ m.status = "scheduled"
    /\ IF IsRecurringMessage(m) THEN ShouldSend(m, t) ELSE SingleDue(m, t)

\* a failed call to a group other than the one the loops special-case
SomeOrdinaryFailed(cs) == \E i \in 1..Len(cs) : ~cs[i].ok /\ cs[i].group # SpecialGroupId

(* C5 as stated: when a due periodic message has a resolved target whose   *)
(* Notifier call fails, status = partial is persisted and lastSent is not  *)
(* advanced.                                                               *)
C5_FailedPeriodicPartialNotAdvanced ==
    \A id \in DOMAIN snapshot :
        (ActivePeriodic(snapshot[id]) /\ SomeFailed(calls[id]))
        => /\ id \in DOMAIN messages
           /\ messages[id].status = "partial"
           /\ messages[id].lastSent = snapshot[id].lastSent

(* C5 amended: when a due periodic message has a resolved target whose     *)
(* Notifier call fails, the tick still leaves status = scheduled and sets  *)
(* lastSent to the tick's time, so the message is no longer due in that    *)
(* period instance.                                                        *)
C5_FailedPeriodicStillRescheduled ==
    \A id \in DOMAIN snapshot :
        (ActivePeriodic(snapshot[id]) /\ SomeFailed(calls[id]))
        => /\ id \in DOMAIN messages
           /\ messages[id].status = "scheduled"
           /\ messages[id].lastSent = now
           /\ ~DueAtTick(messages[id], now)

C5_Witness ==
    \E id \in DOMAIN snapshot :
        /\ id \in DOMAIN messages
        /\ ActivePeriodic(snapshot[id])
        /\ SomeOrdinaryFailed(calls[id])
        /\ messages[id].status = "scheduled"
        /\ messages[id].lastSent = now
        /\ snapshot[id].lastSent # now

(* C6: for every due message, single or periodic, none of whose group ids  *)
(* resolves, the tick makes no Notifier call and sets status = failed.     *)
C6_NoGroupFailed ==
    \A id \in DOMAIN snapshot :
        (DueAtTick(snapshot[id], now) /\ ResolvedTargets(snapshot[id]) = <<>>)
        => /\ calls[id] = <<>>
           /\ id \in DOMAIN messages
           /\ messages[id].status = "failed"

(* C7 as stated: a due single message with two group ids, one of which     *)
(* does not resolve while the other is delivered successfully, ends the    *)
(* tick with status = partial and is not deleted.                          *)
C7_OneUnresolvedPartial ==
    \A id \in DOMAIN snapshot :
        (/\ DueSingle(snapshot[id], now)
         /\ Len(snapshot[id].groupIds) = 2
         /\ Len(ResolvedTargets(snapshot[id])) = 1
         /\ calls[id] # <<>>
         /\ AllOk(calls[id]))
        => /\ id \in DOMAIN messages
           /\ messages[id].status = "partial"

(* C7 amended: a due single message with two group ids, one of which does  *)
(* not resolve while the other is delivered successfully, is deleted by    *)
(* the tick: the unresolved id is dropped and does not count as a failure. *)
C7_OneUnresolvedDeleted ==
    \A id \in DOMAIN snapshot :
        (/\ DueSingle(snapshot[id], now)
         /\ Len(snapshot[id].groupIds) = 2
         /\ Len(ResolvedTargets(snapshot[id])) = 1
         /\ calls[id] # <<>>
         /\ AllOk(calls[id]))
        => /\ Len(calls[id]) = 1
           /\ allSuccess[id]
           /\ id \notin DOMAIN messages

C7_Witness ==
    \E id \in DOMAIN snapshot :
        /\ DueSingle(snapshot[id], now)
        /\ Len(snapshot[id].groupIds) = 2
        /\ Len(ResolvedTargets(snapshot[id])) = 1
        /\ Len(calls[id]) = 1
        /\ AllOk(calls[id])
        /\ id \notin DOMAIN messages

(* C8: when a due single message is attempted and a target's Notifier call *)
(* fails, the message is kept with status = partial, and no tick calls the *)
(* Notifier for a partial single message.                                  *)
C8_FailedSinglePartialTerminal ==
    \A id \in DOMAIN snapshot :
        /\ (DueSingle(snapshot[id], now) /\ SomeFailed(calls[id]))
           => (id \in DOMAIN messages /\ messages[id].status = "partial")
        /\ (snapshot[id].type = "single" /\ snapshot[id].status = "partial")
           => calls[id] = <<>>

(* C9: the aggregate outcome of a firing is all-success if and only if the *)
(* Notifier call succeeded for every resolved target, whichever the group. *)
C9_AllSuccessIffEveryCallOk ==
    \A id \in DOMAIN snapshot :
        calls[id] # <<>> => (allSuccess[id] <=> AllOk(calls[id]))

(* C10: within one firing the Notifier is called for every resolved target *)
(* group, also after the call for an earlier target has failed.            *)
C10_FanOutNotFailFast ==
    \A id \in DOMAIN snapshot :
        calls[id] # <<>> =>
            /\ Len(calls[id]) = Len(ResolvedTargets(snapshot[id]))
            /\ CalledGroups(calls[id]) = ResolvedTargets(snapshot[id])

\* the call for the first of two targets failed and the second was made
C10_Witness ==
    \E id \in DOMAIN snapshot :
        /\ Len(calls[id]) = 2
        /\ ~calls[id][1].ok
        /\ calls[id][2].group = snapshot[id].groupIds[2]


(* C11: no two firings of the timer are in flight with Notifier calls for  *)
(* the same message, and a single message is handed to the Notifier by at  *)
(* most one firing.                                                        *)
C11_NoOverlappingDelivery ==
    /\ \A a, b \in running :
        a # b => \A id \in DOMAIN a.res \cap DOMAIN b.res :
                    ~(a.res[id].calls # <<>> /\ b.res[id].calls # <<>>)
    /\ \A id \in DOMAIN messages :
        messages[id].type = "single" => Len(attempts[id]) <= 1

(* C14: a firing of the timer that is in flight always comes to its end,   *)
(* also when a Notifier call gets no response.                             *)
C14_EveryTickFinishes == (running # {}) ~> (running = {})


\* what the body of a message does when none of its own store calls throws
OwnOutcome(id) ==
    \E oc \in [1..Len(ValidGroups(snapshot[id])) -> BOOLEAN] :
        LET r == ProcessMessage(snapshot[id], now, oc)
        IN /\ calls[id] = r.calls
           /\ IF r.deleted THEN id \notin DOMAIN messages
              ELSE id \in DOMAIN messages /\ messages[id] = r.msg

(* C12: whatever exception the processing of one message raises, every     *)
(* other pending message of the tick, single or periodic, is evaluated and *)
(* handled as if no exception had been raised.                             *)
C12_ErrorsStayWithTheirMessage ==
    \A id \in DOMAIN snapshot :
        (id \in DOMAIN raised /\ raised[id] = "none") => OwnOutcome(id)

\* the first message's store call threw and the second was still delivered
C12_Witness ==
    /\ DOMAIN snapshot = {1, 2}
    /\ raised[1] # "none"
    /\ raised[2] = "none"
    /\ calls[2] # <<>>
    /\ OwnOutcome(2)

(* C13: a due message with a resolvable group that is met by a tick        *)
(* without any token gets no Notifier call and stays in the store exactly  *)
(* as it was (status scheduled, lastSent unchanged); a tick that finds a   *)
(* token calls the Notifier for each of its resolved targets.              *)
C13_NoCredentialsLeavesPending ==
    \A id \in DOMAIN snapshot :
        (DueAtTick(snapshot[id], now) /\ ResolvedTargets(snapshot[id]) # <<>>) =>
            IF ~settingsToken /\ ~envToken
            THEN /\ calls[id] = <<>>
                 /\ id \in DOMAIN messages
                 /\ messages[id] = snapshot[id]
                 /\ messages[id].status = "scheduled"
            ELSE CalledGroups(calls[id]) = ResolvedTargets(snapshot[id])

\* a tick without a token has just passed over a due message
C13_Witness ==
    \E id \in DOMAIN snapshot :
        /\ DueAtTick(snapshot[id], now)
        /\ ResolvedTargets(snapshot[id]) # <<>>
        /\ ~settingsToken /\ ~envToken
        /\ calls[id] = <<>>
        /\ attempts[id] = <<>>
        /\ messages[id] = snapshot[id]

(* C15: a pending periodic message whose scheduledTime is missing or cannot *)
(* be read gets no Notifier call in a tick and stays in the store as it    *)
(* was, and the tick still handles every other message.                    *)
C15_UnreadableScheduleNeverDue ==
    \A id \in DOMAIN snapshot :
        (/\ snapshot[id].type = "periodic"
         /\ snapshot[id].status = "scheduled"
         /\ snapshot[id].scheduledTime \in {Empty, Invalid})
        => /\ calls[id] = <<>>
           /\ id \in DOMAIN messages
           /\ messages[id] = snapshot[id]
           /\ \A other \in DOMAIN snapshot \ {id} :
                raised[other] = "none" => OwnOutcome(other)

\* the second loop passed over an unreadable message and delivered the next
C15_Witness ==
    /\ DOMAIN snapshot = {1, 2}
    /\ IsRecurringMessage(snapshot[1])
    /\ snapshot[1].scheduledTime \in {Empty, Invalid}
    /\ messages[1] = snapshot[1]
    /\ IsRecurringMessage(snapshot[2])
    /\ raised[2] = "none"
    /\ calls[2] # <<>>

(* C16: the lastSent a tick writes for a message it has sent is the time   *)
(* of that tick, and no stored lastSent lies after the current time, so    *)
(* lastSent is at or before the time of every later evaluation.            *)
C16_LastSentIsTickTime ==
    \A id \in DOMAIN messages :
        /\ messages[id].lastSent # None => messages[id].lastSent <= now
        /\ (id \in DOMAIN snapshot /\ calls[id] # <<>>) => messages[id].lastSent = now

\* a later tick evaluates a message whose lastSent an earlier tick wrote
C16_Witness ==
    \E id \in DOMAIN snapshot \cap DOMAIN messages :
        /\ attempts[id] # <<>>
        /\ messages[id].lastSent = Last(attempts[id])
        /\ messages[id].lastSent < now
        /\ snapshot[id].status = "scheduled"

(* C17: every periodic message a tick has read is still in the store, as a *)
(* periodic message, after the tick; the messages a tick removes are       *)
(* single messages.                                                        *)
C17_PeriodicNeverDeleted ==
    \A id \in DOMAIN snapshot :
        IF snapshot[id].type = "periodic"
        THEN id \in DOMAIN messages /\ messages[id].type = "periodic"
        ELSE id \notin DOMAIN messages => snapshot[id].type = "single"

\* a paused periodic message went through the first loop, was delivered to
\* all its targets and is still stored
C17_Witness ==
    \E id \in DOMAIN snapshot :
        /\ snapshot[id].type = "periodic"
        /\ ~snapshot[id].recurringActive
        /\ calls[id] # <<>>
        /\ allSuccess[id]
        /\ id \in DOMAIN messages

\* due by the rules for single messages and for active periodic messages;
\* a periodic message whose recurrence is paused falls under neither
DueByEvaluator(m, t) ==
    /\ m.status = "scheduled"
    /\ \/ m.type = "single" /\ SingleDue(m, t)
       \/ ActivePeriodic(m) /\ ShouldSend(m, t)

(* C18: a message that is not due at the tick's time, or whose status is   *)
(* not scheduled, gets no Notifier call in that tick and is in the store   *)
(* after the tick exactly as it was before.                                *)
C18_NotDueUntouched ==
    \A id \in DOMAIN snapshot :
        ~DueByEvaluator(snapshot[id], now) =>
            /\ calls[id] = <<>>
            /\ id \in DOMAIN messages
            /\ messages[id] = snapshot[id]

\* the fields of a message that the caller of createMessage supplies
SuppliedFields ==
    {"title", "content", "scheduledTime", "endTime", "type", "status", "groupIds",
     "currency", "amount", "recurringType", "lastSent", "recurringActive"}

(* C19: the record getMessage returns for the id of a createMessage has    *)
(* every supplied field (title, content, scheduledTime, endTime, type,     *)
(* status, groupIds, currency, amount, recurringType, lastSent,            *)
(* recurringActive) with the value given to createMessage.                 *)
C19_CreateThenGetRoundTrip ==
    Len(request) = 3 =>
        \A f \in SuppliedFields :
            f \in DOMAIN request[3] /\ request[3][f] = request[1][f]

(* C20: inserting the line breaks into a text that has already been        *)
(* through the insertion gives the same text; after one insertion every    *)
(* full stop is followed by exactly the one line feed it needs.            *)
C20_InsertBreaksIdempotent ==
    LET once == InsertBreaks(body)
    IN /\ InsertBreaks(once) = once
       /\ \A i \in 1..Len(once) :
            once[i] = FullStop => i < Len(once) /\ once[i + 1] = LineFeed
       /\ Len(once) = Len(body) + Cardinality({i \in 1..Len(body) :
                        body[i] = FullStop /\ (i = Len(body) \/ body[i + 1] # LineFeed)})

\* the formatter has put line feeds into a text with several full stops
C20_Witness ==
    /\ Len(body) > MaxBody
    /\ \E i, j \in 1..Len(body) : i < j /\ body[i] = FullStop /\ body[j] = FullStop
    /\ InsertBreaks(body) = body

\* the text ends with the annotation of the message
EndsWithAnnotation(text, m) ==
    LET note == <<LineFeed, LineFeed, "label">> \o currencySymbol(m.currency) \o m.amount
    IN Len(text) >= Len(note)
       /\ SubSeq(text, Len(text) - Len(note) + 1, Len(text)) = note

(* C21: formatting appends the annotation to a text exactly when the       *)
(* message has a currency and an amount and the text does not contain      *)
(* symbol+amount, and formatting the formatted text again with the same    *)
(* currency and amount gives it back unchanged.                            *)
C21_AnnotationOnceOnly ==
    LET m == messages[1]
        rendered == currencySymbol(m.currency) \o m.amount
        wanted == m.currency # "" /\ m.amount # <<>> /\ ~includes(body, rendered)
        once == format(body, m.currency, m.amount)
    IN /\ IF wanted
          THEN /\ once = InsertBreaks(body \o <<LineFeed, LineFeed, "label">> \o rendered)
               /\ EndsWithAnnotation(once, m)
          ELSE once = InsertBreaks(body)
       /\ format(once, m.currency, m.amount) = once

\* a formatted text that ends with its annotation; formatting it again is
\* the step that leaves it as it is
C21_Witness ==
    LET m == messages[1]
    IN /\ m.currency = "TWD"
       /\ m.amount = <<"5">>
       /\ ~includes(m.content, <<"NT$", "5">>)
       /\ body # m.content
       /\ EndsWithAnnotation(body, m)

\* minutes since midnight in Taipei of a stored instant
TimeOfDay(t) == ToTW(t) % MinutesPerDay

\* the calendar condition of a recurrence: the tick's day against the anchor's
PeriodMatch(r, anchor, t) ==
    LET a == ToTW(anchor)
        n == ToTW(t)
    IN CASE r = "daily" -> TRUE
         [] r = "weekly" -> (DayNum(n) - DayNum(a)) % 7 = 0
         [] r = "monthly" -> date(n) = date(a)
         [] r = "yearly" -> month(n) = month(a) /\ date(n) = date(a)
         [] OTHER -> FALSE

(* C22: an active periodic message that a tick evaluates as due, or calls  *)
(* the Notifier for, meets its period's calendar condition at the tick's   *)
(* Taipei time (none for daily, the anchor's weekday for weekly, its day   *)
(* of the month for monthly, its month and day for yearly), and the tick's *)
(* time of day is at or after the anchor's.                                *)
C22_DueOnlyOnPeriodMatch ==
    \A id \in DOMAIN snapshot :
        (/\ ActivePeriodic(snapshot[id])
         /\ (ShouldSend(snapshot[id], now) \/ calls[id] # <<>>))
        => /\ IsInstant(snapshot[id].scheduledTime)
           /\ PeriodMatch(snapshot[id].recurringType, snapshot[id].scheduledTime, now)
           /\ TimeOfDay(now) >= TimeOfDay(snapshot[id].scheduledTime)

\* a weekly message is delivered on the anchor's weekday in a later week
C22_Witness ==
    \E id \in DOMAIN snapshot :
        /\ ActivePeriodic(snapshot[id])
        /\ snapshot[id].recurringType = "weekly"
        /\ calls[id] # <<>>
        /\ now >= snapshot[id].scheduledTime + 7 * MinutesPerDay

\* the instant the already-sent test of a periodic message looks at
SentOrAnchor(m) == IF m.lastSent # None THEN m.lastSent ELSE m.scheduledTime

C25_SameIsoWeekNotDue ==
    \A id \in DOMAIN snapshot :
        (/\ ActivePeriodic(snapshot[id])
         /\ snapshot[id].recurringType = "weekly"
         /\ IsInstant(snapshot[id].scheduledTime)
         /\ snapshot[id].lastSent # None
         /\ IsoWeekStart(ToTW(snapshot[id].lastSent)) = IsoWeekStart(ToTW(now)))
        => /\ ~ShouldSend(snapshot[id], now)
           /\ calls[id] = <<>>

(* C26: a periodic message whose recurringActive is false gets no Notifier *)
(* call from a tick and keeps its status and lastSent.                     *)
C26_PausedNeverDelivered ==
    \A id \in DOMAIN snapshot :
        (snapshot[id].type = "periodic" /\ ~snapshot[id].recurringActive)
        => /\ calls[id] = <<>>
           /\ id \in DOMAIN messages
           /\ messages[id].status = snapshot[id].status
           /\ messages[id].lastSent = snapshot[id].lastSent

----------------------------------------------------------------------------
(* POST /messages of src/server/routes.ts: every created message arms a    *)
(* timer whose callback sends it. Here running holds the armed timers.     *)

\* 3 * 60 * 1000 ms, in minutes
AutoSendDelay == 3

\* minutes the clock is followed after the server has started
MaxWait == 4

\* POST /messages requests followed
MaxPosts == 1

\* scheduledTime values of the request bodies: in the past, at the moment
\* the timer fires, and later than that
PostedTimes == {Now0 - 5, Now0 + AutoSendDelay, Now0 + 10}

PostedMessages ==
    {Message(type, "scheduled", s, None, IF type = "periodic" THEN "daily" ELSE "none",
             type = "periodic", g) :
        type \in {"single", "periodic"}, s \in PostedTimes, g \in {<<1, 2>>, <<9>>}}

InitAutoSend ==
    /\ now = Now0
    /\ advances = 0
    /\ messages = <<>>
    /\ groups = {1, 2}
    /\ settingsToken \in BOOLEAN
    /\ envToken = FALSE
    /\ snapshot = <<>>
    /\ calls = <<>>
    /\ allSuccess = <<>>
    /\ attempts = <<>>
    /\ OthersIdle

\* one more entry in an id-keyed record of what the callbacks did
With(f, id, v) == [i \in DOMAIN f \cup {id} |-> IF i = id THEN v ELSE f[i]]

\* the handler: storage.createMessage(validated), then setTimeout(..., 3 min)
PostMessage ==
    /\ Cardinality(DOMAIN attempts) < MaxPosts
    /\ \E validated \in PostedMessages :
        LET id == Cardinality(DOMAIN attempts) + 1
        IN /\ messages' = With(messages, id, validated)
           /\ attempts' = With(attempts, id, <<>>)
           /\ calls' = With(calls, id, <<>>)
           /\ allSuccess' = With(allSuccess, id, TRUE)
           /\ running' = running \cup {[id |-> id, at |-> now + AutoSendDelay,
                                         message |-> validated]}
    /\ UNCHANGED <<now, advances, groups, settingsToken, envToken, snapshot,
                   raised, request, body>>

\* a minute passes
Minute ==
    /\ advances < MaxWait
    /\ now' = now + 1
    /\ advances' = advances + 1
    /\ UNCHANGED <<messages, groups, settingsToken, envToken, snapshot, calls,
                   allSuccess, attempts>>
    /\ UNCHANGED others

\* DELETE /messages/:id
DeleteMessage ==
    /\ \E id \in DOMAIN messages :
        messages' = [i \in DOMAIN messages \ {id} |-> messages[i]]
    /\ UNCHANGED <<now, advances, groups, settingsToken, envToken, snapshot,
                   calls, allSuccess, attempts>>
    /\ UNCHANGED others

\* the delay of the timer has passed
TimerExpired(r) == now >= r.at

\* what the callback stores after its send loop; message is the record the
\* handler created, captured by the callback
AfterAutoSend(id, message, success) ==
    IF ~success
    THEN [messages EXCEPT ![id].status = "partial"]
    ELSE IF message.type = "periodic" /\ message.recurringActive
         THEN [messages EXCEPT ![id].status = "scheduled", ![id].lastSent = now]
         ELSE [i \in DOMAIN messages \ {id} |-> messages[i]]

\* the setTimeout callback
AutoSend ==
    \E r \in running :
        /\ TimerExpired(r)
        /\ running' = running \ {r}
        /\ IF \/ r.id \notin DOMAIN messages
              \/ ~settingsToken
              \/ ValidGroups(messages[r.id]) = <<>>
           THEN UNCHANGED <<messages, snapshot, calls, allSuccess, attempts>>
           ELSE LET messageToSend == messages[r.id]
                    validGroups == ValidGroups(messageToSend)
                IN \E oc \in [1..Len(validGroups) -> BOOLEAN] :
                    LET success == \A i \in 1..Len(validGroups) : oc[i]
                    IN /\ calls' = [calls EXCEPT ![r.id] =
                                      [i \in 1..Len(validGroups) |->
                                          [group |-> validGroups[i], ok |-> oc[i]]]]
                       /\ allSuccess' = [allSuccess EXCEPT ![r.id] = success]
                       /\ attempts' = [attempts EXCEPT ![r.id] = Append(@, now)]
                       /\ snapshot' = With(snapshot, r.id, messageToSend)
                       /\ messages' = AfterAutoSend(r.id, r.message, success)
        /\ UNCHANGED <<now, advances, groups, settingsToken, envToken, raised,
                       request, body>>

NextAutoSend == PostMessage \/ Minute \/ DeleteMessage \/ AutoSend

SpecAutoSend == InitAutoSend /\ [][NextAutoSend]_vars

(* C27: after POST /messages has created a message, every Notifier call   *)
(* the server makes for it on its own happens at an instant that is at or  *)
(* after the message's scheduledTime.                                      *)
C27_NoAutoSendBeforeSchedule ==
    \A id \in DOMAIN snapshot :
        \A i \in 1..Len(attempts[id]) :
            attempts[id][i] >= snapshot[id].scheduledTime

----------------------------------------------------------------------------
(* Recurrences whose anchor lies on a later date than the first tick *)

\* the same time of day as AnchorPast: the next day, the same weekday a week
\* later, the same day of month two months later, the same date a year later
FutureAnchors ==
    {TWInstant(396, 6, 54), TWInstant(402, 6, 54), TWInstant(455, 6, 54),
     TWInstant(761, 6, 54)}

FutureMessages ==
    {Message("periodic", "scheduled", s, l, r, TRUE, g) :
        s \in FutureAnchors, l \in {None, SentLastYear},
        r \in {"daily", "weekly", "monthly", "yearly"}, g \in FewGroupIdLists}

InitFuture ==
    /\ now = Now0
    /\ advances = 0
    /\ messages \in [{1} -> FutureMessages]
    /\ groups \in GroupStores
    /\ settingsToken \in BOOLEAN
    /\ envToken = FALSE
    /\ snapshot = <<>>
    /\ calls = [id \in {1} |-> <<>>]
    /\ allSuccess = [id \in {1} |-> TRUE]
    /\ attempts = [id \in {1} |-> <<>>]
    /\ OthersIdle

SpecFuture == InitFuture /\ [][Next]_vars

----------------------------------------------------------------------------
(* A monthly recurrence followed day by day: every day has a tick that     *)
(* runs after the anchor's time of day.                                    *)

\* days followed after the first tick: to 1 April 2024
MaxDays == 61

\* anchored on 29, 30 and 31 January 2024, 06:54 Taipei
MonthlyMessages ==
    {Message("periodic", "scheduled", TWInstant(d, 6, 54), l, "monthly", TRUE, <<1>>) :
        d \in {393, 394, 395}, l \in {None, SentLastYear}}

InitMonth ==
    /\ now = Now0
    /\ advances = 0
    /\ messages \in [{1} -> MonthlyMessages]
    /\ groups = {1, 18}
    /\ settingsToken = TRUE
    /\ envToken = FALSE
    /\ snapshot = <<>>
    /\ calls = [id \in {1} |-> <<>>]
    /\ allSuccess = [id \in {1} |-> TRUE]
    /\ attempts = [id \in {1} |-> <<>>]
    /\ OthersIdle

\* the tick of the day that runs at the time of day of now
TickOfDay == snapshot = <<>> /\ Tick

\* the ticks of the day have run; the same time of day, a day later
NextDay ==
    /\ snapshot # <<>>
    /\ advances < MaxDays
    /\ now' = now + MinutesPerDay
    /\ advances' = advances + 1
    /\ TickForgotten
    /\ UNCHANGED <<messages, groups, settingsToken, envToken, attempts>>
    /\ UNCHANGED others

NextMonth == TickOfDay \/ NextDay

SpecMonth == InitMonth /\ [][NextMonth]_vars

\* calendar months counted from January 2023
MonthIndex(t) == LET tw == ToTW(t) IN (year(tw) - 2023) * 12 + month(tw)

\* the months after the anchor's month that are over at instant t
MonthsOver(m, t) == (MonthIndex(m.scheduledTime) + 1)..(MonthIndex(t) - 1)

AttemptedIn(id, k) ==
    \E i \in 1..Len(attempts[id]) : MonthIndex(attempts[id][i]) = k

OnceIn(id, k) ==
    Cardinality({i \in 1..Len(attempts[id]) : MonthIndex(attempts[id][i]) = k}) = 1

\* month k has the day of month of the anchor
HasAnchorDay(m, k) ==
    MonthLen(2023 + (k \div 12), k % 12) >= date(ToTW(m.scheduledTime))

\* C29 as stated: every month after the anchor's month that is over has
\* had one attempt, whatever its length
C29_EveryMonthAttempted ==
    \A id \in DOMAIN messages :
        \A k \in MonthsOver(messages[id], now) : OnceIn(id, k)

(* C29: a monthly message with a valid target and a token, evaluated by a  *)
(* tick every day after the anchor's time of day, is attempted once in     *)
(* every month after its anchor month that has the anchor's day of month,  *)
(* and not at all in a month that is shorter (anchors on the 29th, 30th    *)
(* or 31st skip such months).                                              *)
C29_MonthsWithAnchorDayAttempted ==
    \A id \in DOMAIN messages :
        \A k \in MonthsOver(messages[id], now) :
            IF HasAnchorDay(messages[id], k) THEN OnceIn(id, k)
            ELSE ~AttemptedIn(id, k)

\* March 2024 is over with one attempt on the 31st, February with none
C29_Witness ==
    \E id \in DOMAIN messages :
        /\ date(ToTW(messages[id].scheduledTime)) = 31
        /\ MonthsOver(messages[id], now) = {13, 14}
        /\ ~AttemptedIn(id, 13)
        /\ OnceIn(id, 14)

----------------------------------------------------------------------------
(* sendLineMessage: one call, followed request by request.  Here calls is  *)
(* the sequence of answers its HTTP requests have had, advances is         *)
(* retryCount, running says that the call is in its while loop and raised  *)
(* holds how the call ended.                                               *)

MAX_RETRIES == 2

\* What one fetch can come to: "network" is a fetch that throws, "html" an
\* answer whose text starts with <!DOCTYPE or <html, "json" any other
\* answer.  text429 says whether the text that ends up in the Error message
\* (result.message, statusText, the raw text, or fetch's own message) holds
\* "429" or the words for "quota limit".
Responses ==
    [kind : {"json"}, status : {200, 400, 429, 500}, text429 : BOOLEAN]
        \cup [kind : {"html", "network"}, status : {0}, text429 : BOOLEAN]

\* response.ok
Ok(resp) == resp.status = 200

\* errorMessage.includes("429") || errorMessage.includes(quota limit) on the
\* Error thrown for the answer: "LINE API Error (<status>): <text>" for a
\* failed JSON answer, a fixed text for an HTML answer, fetch's own message
Retryable(resp) ==
    CASE resp.kind = "html" -> FALSE
      [] resp.kind = "network" -> resp.text429
      [] OTHER -> resp.status = 429 \/ resp.text429

\* the catch block of the loop body, entered with retryCount and the Error
Catch(retryCount, retryable) ==
    IF ~retryable THEN [retryCount |-> retryCount, next |-> "throw"]
    ELSE IF retryCount + 1 <= MAX_RETRIES
         THEN [retryCount |-> retryCount + 1, next |-> "continue"]
         ELSE [retryCount |-> retryCount + 1, next |-> "throw"]

\* one pass through the body of while (retryCount <= MAX_RETRIES)
Iteration(retryCount, resp) ==
    CASE resp.kind = "network" -> Catch(retryCount, Retryable(resp))
      [] resp.kind = "html" -> Catch(retryCount, Retryable(resp))
      [] Ok(resp) -> [retryCount |-> retryCount, next |-> "return"]
      [] resp.status = 429 ->
            IF retryCount + 1 <= MAX_RETRIES
            THEN [retryCount |-> retryCount + 1, next |-> "continue"]
            ELSE Catch(retryCount + 1, Retryable(resp))
      [] OTHER -> Catch(retryCount, Retryable(resp))

InitSend ==
    /\ now = Now0
    /\ advances = 0
    /\ messages = <<>>
    /\ groups = {}
    /\ settingsToken \in BOOLEAN
    /\ envToken \in BOOLEAN
    /\ snapshot = <<>>
    /\ calls = <<>>
    /\ allSuccess = <<>>
    /\ attempts = <<>>
    /\ OthersIdle

\* sendLineMessage is called: the token check, then the loop is entered
\* with retryCount = 0
CallSend ==
    /\ running = {} /\ raised = <<>>
    /\ IF TokenMissing
       THEN raised' = <<"throw">> /\ UNCHANGED running
       ELSE running' = {"loop"} /\ UNCHANGED raised
    /\ UNCHANGED <<now, advances, messages, groups, settingsToken, envToken,
                   snapshot, calls, allSuccess, attempts, request, body>>

\* one request is made and answered, and the loop body runs to its end
Attempt ==
    /\ running = {"loop"}
    /\ advances <= MAX_RETRIES
    /\ \E resp \in Responses :
        LET it == Iteration(advances, resp)
        IN /\ calls' = Append(calls, resp)
           /\ advances' = it.retryCount
           /\ IF it.next = "continue"
              THEN UNCHANGED <<running, raised>>
              ELSE running' = {} /\ raised' = <<it.next>>
    /\ UNCHANGED <<now, messages, groups, settingsToken, envToken, snapshot,
                   allSuccess, attempts, request, body>>

NextSend == CallSend \/ Attempt

SpecSend == InitSend /\ [][NextSend]_vars

\* a failure by rate limit: the answer has HTTP status 429
RateLimited(resp) == resp.kind = "json" /\ resp.status = 429

\* at most the first attempt plus MAX_RETRIES requests
RequestsBounded == Len(calls) <= MAX_RETRIES + 1

\* a call that is still in its loop can make its next request, and a call
\* that has left the loop has returned or thrown
LoopEnds ==
    /\ running = {"loop"} => advances <= MAX_RETRIES /\ raised = <<>>
    /\ (running = {} /\ calls # <<>>) => raised \in {<<"return">>, <<"throw">>}

\* every request that was followed by another one had been rate limited
RetriedOnlyWhenRateLimited ==
    \A i \in 1..(Len(calls) - 1) : RateLimited(calls[i])

(* C30: one call of sendLineMessage makes at most 3 HTTP requests, makes   *)
(* another request only after an answer with status 429, throws after one  *)
(* request for any other failure, and has returned or thrown once every    *)
(* request has been answered.                                              *)
C30_BoundedRetryOnRateLimitOnly ==
    /\ RequestsBounded
    /\ LoopEnds
    /\ RetriedOnlyWhenRateLimited

----------------------------------------------------------------------------
(* POST /send-message next to the scheduler: the operator sends a stored   *)
(* message by hand between two ticks.  Here request holds the latest       *)
(* manual send that succeeded for all targets: the message as the handler  *)
(* read it, as it stored it, and how many ticks had called for it by then. *)

\* 2024-02-03 06:59 Taipei, a Saturday
SaturdayNow == TWInstant(398, 6, 59)

\* periodic messages of every period, and messages the handler deletes
ManualMessages ==
    {Message("periodic", "scheduled", SundayAnchor, l, r, TRUE, g) :
        l \in {None, SentLastYear}, r \in {"daily", "weekly", "monthly", "yearly"},
        g \in {<<1>>, <<1, 18>>}}
    \cup {Message("single", "scheduled", s, None, "none", FALSE, <<1>>) :
             s \in {SundayAnchor, SundayNow}}
    \cup {Message("periodic", "scheduled", SundayNow, None, "daily", FALSE, <<1>>)}

InitManual ==
    /\ now = SaturdayNow
    /\ advances = 0
    /\ messages \in [{1} -> ManualMessages]
    /\ groups = {1, 18}
    /\ settingsToken \in BOOLEAN
    /\ envToken = FALSE
    /\ snapshot = <<>>
    /\ calls = [id \in {1} |-> <<>>]
    /\ allSuccess = [id \in {1} |-> TRUE]
    /\ attempts = [id \in {1} |-> <<>>]
    /\ OthersIdle

\* results of Promise.all over validGroups: a failed call for group 18
\* counts as a success
Results(validGroups, oc) ==
    [i \in 1..Len(validGroups) |->
        [groupId |-> validGroups[i],
         success |-> oc[i] \/ validGroups[i] = SpecialGroupId]]

\* results.every(r => r.success)
AllSuccessful(results) == \A i \in 1..Len(results) : results[i].success

\* the store after the handler: lastSent and status "scheduled" for an
\* active periodic message sent to all targets, deletion for any other
\* message sent to all targets, status "partial" otherwise
AfterSendMessage(id, message, allSuccessful, t) ==
    IF ~allSuccessful
    THEN [messages EXCEPT ![id].status = "partial"]
    ELSE IF message.type = "periodic" /\ message.recurringActive
         THEN [messages EXCEPT ![id].lastSent = ToISOString(ToTW(t)),
                               ![id].status = "scheduled"]
         ELSE [i \in DOMAIN messages \ {id} |-> messages[i]]

\* POST /send-message for a stored message, with a token and a resolved group
SendMessage ==
    /\ ~TokenMissing
    /\ \E id \in DOMAIN messages :
        LET message == messages[id]
            validGroups == ValidGroups(message)
        IN /\ validGroups # <<>>
           /\ \E oc \in [1..Len(validGroups) -> BOOLEAN] :
                LET allSuccessful == AllSuccessful(Results(validGroups, oc))
                IN /\ messages' = AfterSendMessage(id, message, allSuccessful, now)
                   /\ request' = IF allSuccessful
                                 THEN <<[id |-> id, at |-> now,
                                         message |-> message,
                                         stored |-> IF id \in DOMAIN messages'
                                                    THEN <<messages'[id]>> ELSE <<>>,
                                         seen |-> Len(attempts[id])]>>
                                 ELSE request
    /\ TickForgotten
    /\ UNCHANGED <<now, advances, groups, settingsToken, envToken, attempts,
                   running, raised, body>>

NextManual == Advance \/ UpdateSettings \/ Tick \/ SendMessage

SpecManual == InitManual /\ [][NextManual]_vars

\* the ticks that called the Notifier for the message after the manual send
LaterAttempts(s) ==
    {attempts[s.id][i] : i \in (s.seen + 1)..Len(attempts[s.id])}

(* C31: after a manual POST /send-message has succeeded for all targets,   *)
(* no later tick calls the Notifier for that message in the same period    *)
(* instance (day, ISO week, month or year) when it is an active periodic   *)
(* message, whose lastSent is the send time and whose status is scheduled; *)
(* any other message is deleted and no later tick calls for it at all.     *)
C31_NoRedeliveryAfterManualSend ==
    request # <<>> =>
        LET s == request[1]
        IN IF s.message.type = "periodic" /\ s.message.recurringActive
           THEN /\ Len(s.stored) = 1
                /\ s.stored[1].status = "scheduled"
                /\ s.stored[1].lastSent = s.at
                /\ \A t \in LaterAttempts(s) :
                      ~SamePeriodInstance(s.message.recurringType, s.at, t)
           ELSE /\ s.stored = <<>>
                /\ s.id \notin DOMAIN messages
                /\ LaterAttempts(s) = {}

====
